---- MODULE Spec2Model ----
(***************************************************************************)
(* Magnetic iron-particle simulator: Physics (force field, integrator,     *)
(* ground and pairwise collisions), IronParticle (per-particle update,     *)
(* bounds check) and MagneticSimulationApp (spawn, eviction, pooling,      *)
(* frame update).                                                          *)
(*                                                                         *)
(* Numbers.  The program computes in IEEE doubles; the model computes in   *)
(* fixed point on 32-bit integers, every division truncating toward zero:  *)
(*   lengths, positions      1 unit = 0.001 m                              *)
(*   velocities              1 unit = 0.001 m/s                            *)
(*   accelerations           1 unit = 0.001 m/s^2                          *)
(*   masses                  1 unit = 0.001 kg                             *)
(*   forces                  1 unit = 0.000001 N  (= mass unit * acc unit) *)
(*   pure factors, angles    1 unit = 0.001                                *)
(*   deltaTime               1/den seconds, given by its denominator den   *)
(*   age                     1 unit = 1/60 s                               *)
(*                                                                         *)
(* Style.  A value that is used more than once is passed on as an operator *)
(* parameter instead of being named in a LET, which keeps the expression   *)
(* tree of the module small.                                               *)
(***************************************************************************)
EXTENDS Integers, Sequences, FiniteSets, TLC

\* ------------------------------------------------------------------ numbers

\* one unit of the fixed-point representation: 1.0 = ONE
ONE == 1000

Abs(a) == IF a < 0 THEN -a ELSE a

\* Math.min / Math.max
Min(a, b) == IF a < b THEN a ELSE b
Max(a, b) == IF a > b THEN a ELSE b

\* Utils.clamp
Clamp(value, lo, hi) == Min(Max(value, lo), hi)

\* F(x) with x computed before F is entered, as in a call by value: an
\* operator argument is otherwise computed where F first uses it
Eval(F(_), x) == CHOOSE r \in { F(v) : v \in {x} } : TRUE

\* a / b, truncated toward zero (b > 0)
TDiv(a, b) == IF a >= 0 THEN a \div b ELSE -((-a) \div b)

\* a * b / c for naturals, exact floor, without a 32-bit overflow of a * b:
\* the greater factor is split in two limbs of three digits
MulDivNat(a, b, c) ==
    LET lo == IF a < b THEN a ELSE b
        hi == IF a < b THEN b ELSE a
        p  == lo * (hi \div ONE)
    IN  (p \div c) * ONE + ((p % c) * ONE + lo * (hi % ONE)) \div c

\* a * b / c, truncated toward zero (c > 0)
MulDiv(a, b, c) ==
    (IF (a < 0) = (b < 0) THEN 1 ELSE -1) * MulDivNat(Abs(a), Abs(b), c)

\* a power of two that is at least the square root of n, 0 < n < 2^31
SqrtAbove(n) ==
    IF n < 256 THEN 16
    ELSE IF n < 65536 THEN 256
    ELSE IF n < 16777216 THEN 4096
    ELSE 46341

\* Newton's iteration for the square root, from x down: y is the iterate after
\* x, and the first x that y does not go below is the floor of the root
RECURSIVE SqrtNewton(_, _, _)
SqrtNewton(n, x, y) ==
    IF y >= x THEN x ELSE SqrtNewton(n, y, (y + n \div y) \div 2)

\* Math.sqrt on naturals below 2^31: the floor of the root
ISqrt(n) ==
    IF n <= 0 THEN 0
    ELSE SqrtNewton(n, SqrtAbove(n), (SqrtAbove(n) + n \div SqrtAbove(n)) \div 2)

\* ------------------------------------------------------------------ vectors

Vec(x, y, z) == [x |-> x, y |-> y, z |-> z]

ZeroVec == Vec(0, 0, 0)

\* THREE.Vector3.add / sub / subVectors
VAdd(a, b) == Vec(a.x + b.x, a.y + b.y, a.z + b.z)
VSub(a, b) == Vec(a.x - b.x, a.y - b.y, a.z - b.z)

\* THREE.Vector3.multiplyScalar by the fixed-point factor s / ONE
VScale(a, s) == Vec(TDiv(a.x * s, ONE), TDiv(a.y * s, ONE), TDiv(a.z * s, ONE))

\* THREE.Vector3.multiplyScalar(s), the product kept in the finer unit
VTimes(a, s) == Vec(a.x * s, a.y * s, a.z * s)

\* THREE.Vector3.divideScalar(den) and multiplyScalar(1 / den), den a natural
VDivInt(a, den) == Vec(TDiv(a.x, den), TDiv(a.y, den), TDiv(a.z, den))

\* v * s / len: a vector of length len rescaled to length s
VRescale(v, s, len) == Vec(MulDiv(v.x, s, len), MulDiv(v.y, s, len), MulDiv(v.z, s, len))

\* components are divided by LenScale(v) before they are squared, so that the
\* sum of the three squares stays below 2^31
LenScale(v) == 1 + Max(Abs(v.x), Max(Abs(v.y), Abs(v.z))) \div 20000

SumSq(x, y, z) == x * x + y * y + z * z

LengthBy(v, k) == k * ISqrt(SumSq(TDiv(v.x, k), TDiv(v.y, k), TDiv(v.z, k)))

\* THREE.Vector3.length: sqrt(x*x + y*y + z*z)
Length(v) == LengthBy(v, LenScale(v))

\* Utils.distance(v1, v2)
Distance(v1, v2) == Length(VSub(v2, v1))

NormalizeBy(v, len) == IF len = 0 THEN v ELSE VRescale(v, ONE, len)

\* THREE.Vector3.normalize: divideScalar(length() || 1); the unit vector has
\* components in [-ONE, ONE]
Normalize(v) == NormalizeBy(v, Length(v))

\* THREE.Vector3.dot of two fixed-point vectors, a fixed-point number
Dot(a, b) == TDiv(a.x * b.x + a.y * b.y + a.z * b.z, ONE)

\* ---------------------------------------------------------------- functions

\* Math.PI, in thousandths
PI == 3142

\* 1 - t2/2 + t2^2/24 - t2^3/720 + t2^4/40320, t2 the square of the angle
CosPoly(t2, t4) ==
    ONE - t2 \div 2 + t4 \div 24 - ((t4 * t2) \div ONE) \div 720
        + ((t4 * t4) \div ONE) \div 40320

CosSq(t2) == CosPoly(t2, (t2 * t2) \div ONE)

\* cos on [0, pi/2], by its Taylor polynomial up to t^8
CosTaylor(t) == CosSq((t * t) \div ONE)

\* Math.cos on [-pi, pi]
Cos(angle) ==
    IF 2 * Abs(angle) <= PI THEN CosTaylor(Abs(angle))
    ELSE -CosTaylor(Max(PI - Abs(angle), 0))

ExpPoly(f, f2, f3) ==
    ONE - f + f2 \div 2 - f3 \div 6 + ((f3 * f) \div ONE) \div 24
        - ((f3 * f2) \div ONE) \div 120 + ((f3 * f3) \div ONE) \div 720

ExpSq(f, f2) == ExpPoly(f, f2, (f2 * f) \div ONE)

\* exp(-f) on [0, 1), by its Taylor polynomial up to f^6
ExpNegTaylor(f) == ExpSq(f, (f * f) \div ONE)

\* Math.exp(-y), y >= 0: exp(-1) = 0.368 per whole unit of y
RECURSIVE ExpNeg(_)
ExpNeg(y) ==
    IF y >= 8 * ONE THEN 0
    ELSE IF y >= ONE THEN (ExpNeg(y - ONE) * 368) \div ONE
    ELSE ExpNegTaylor(y)

\* ------------------------------------------------------------------ Physics

\* the constants of the Physics constructor
GRAVITY == -9810
DAMPING == 980
AIR_RESISTANCE == 990
MAGNETIC_FORCE_SCALE == 50
\* MIN_FORCE = 0.001 N and MAX_FORCE = 10 N, in force units
MIN_FORCE == 1000
MAX_FORCE == 10000000
maxVelocity == 20000
restitution == 300

\* the magnet types of Magnet.type
MagnetTypes == {"bar", "ring", "horseshoe"}

\* every force above ForceCap is represented by ForceCap (32-bit range):
\* MAX_FORCE is far below it
ForceCap == 100 * MAX_FORCE

\* Physics.calculateBarMagnetField: |cos(dot * pi)| + 0.3, where dot is the y
\* component of the unit vector from the magnet to the particle
calculateBarMagnetField(magnetPos, particlePos) ==
    Abs(Cos(TDiv(Dot(Normalize(VSub(particlePos, magnetPos)), Vec(0, ONE, 0)) * PI, ONE)))
        + 300

\* sqrt(toParticle.lengthSq() - axisDistance * axisDistance), the components
\* divided by k before they are squared
RadialBy(v, k) ==
    k * ISqrt(SumSq(TDiv(v.x, k), TDiv(v.y, k), TDiv(v.z, k))
                - TDiv(v.y, k) * TDiv(v.y, k))

\* Math.pow(d, 2) of a fixed-point number
SqFix(d) == (d * d) \div ONE

\* exp(-2 (radialDistance - 1)^2); beyond |radialDistance - 1| = 3 it is 0
RingEffect(radialDistance) ==
    ExpNeg(SqFix(Min(Abs(radialDistance - ONE), 3 * ONE)) * 2)

\* Physics.calculateRingMagnetField: exp(-2 (radialDistance - 1)^2) + 0.2
calculateRingMagnetField(magnetPos, particlePos) ==
    RingEffect(RadialBy(VSub(particlePos, magnetPos),
                        LenScale(VSub(particlePos, magnetPos)))) + 200

\* a faulty variant of ShapeMultiplier: a horseshoe magnet shaped like a bar
ShapeMultiplierBarFallback(sourcePos, targetPos, magnetType) ==
    IF magnetType = "ring" THEN calculateRingMagnetField(sourcePos, targetPos)
    ELSE calculateBarMagnetField(sourcePos, targetPos)

\* the shape multiplier of calculateMagneticForce: bar and ring have one, any
\* other type (horseshoe) leaves forceMagnitude as it is
ShapeMultiplier(sourcePos, targetPos, magnetType) ==
    IF magnetType = "bar" THEN calculateBarMagnetField(sourcePos, targetPos)
    ELSE IF magnetType = "ring" THEN calculateRingMagnetField(sourcePos, targetPos)
    ELSE ONE

\* num / d2 in force units, capped at +-ForceCap
CappedQuotient(num, d2) ==
    IF Abs(num) \div d2 >= ForceCap \div (ONE * ONE)
    THEN (IF num < 0 THEN -ForceCap ELSE ForceCap)
    ELSE MulDiv(num * ONE, ONE, d2)

\* (magnetStrength * MAGNETIC_FORCE_SCALE) / Math.pow(distance, 2)
InverseSquare(magnetStrength, distance) ==
    CappedQuotient(magnetStrength * MAGNETIC_FORCE_SCALE, Max(SqFix(distance), 1))

\* a faulty variant of ForceMagnitude: clamped to [0, 2 * MAX_FORCE]
ForceMagnitudeLoose(sourcePos, targetPos, magnetStrength, magnetType, distance) ==
    Clamp(MulDiv(InverseSquare(magnetStrength, distance),
                 ShapeMultiplier(sourcePos, targetPos, magnetType), ONE),
          0, 2 * MAX_FORCE)

\* the local forceMagnitude of calculateMagneticForce when it is returned:
\* inverse square, shape multiplier, clamp
ForceMagnitude(sourcePos, targetPos, magnetStrength, magnetType, distance) ==
    Clamp(MulDiv(InverseSquare(magnetStrength, distance),
                 ShapeMultiplier(sourcePos, targetPos, magnetType), ONE),
          MIN_FORCE, MAX_FORCE)

\* a faulty variant of ForceAt: the early return below 0.01 instead of 0.1
ForceAtNearGuard(sourcePos, targetPos, magnetStrength, magnetType, distance) ==
    IF distance < 10 THEN ZeroVec
    ELSE Eval(LAMBDA forceMagnitude :
                  VRescale(VSub(sourcePos, targetPos), forceMagnitude, distance),
              ForceMagnitude(sourcePos, targetPos, magnetStrength, magnetType, distance))

\* a faulty variant of ForceAt: the direction from the magnet to the particle
ForceAtRepulsive(sourcePos, targetPos, magnetStrength, magnetType, distance) ==
    IF distance < 100 THEN ZeroVec
    ELSE Eval(LAMBDA forceMagnitude :
                  VRescale(VSub(targetPos, sourcePos), forceMagnitude, distance),
              ForceMagnitude(sourcePos, targetPos, magnetStrength, magnetType, distance))

\* calculateMagneticForce once distance is known: the early return below 0.1,
\* else direction.multiplyScalar(forceMagnitude)
ForceAt(sourcePos, targetPos, magnetStrength, magnetType, distance) ==
    IF distance < 100 THEN ZeroVec
    ELSE Eval(LAMBDA forceMagnitude :
                  VRescale(VSub(sourcePos, targetPos), forceMagnitude, distance),
              ForceMagnitude(sourcePos, targetPos, magnetStrength, magnetType, distance))

\* Physics.calculateMagneticForce
calculateMagneticForce(sourcePos, targetPos, magnetStrength, magnetType) ==
    ForceAt(sourcePos, targetPos, magnetStrength, magnetType,
            Distance(sourcePos, targetPos))

\* Physics.calculateGravity
calculateGravity(mass) == Vec(0, GRAVITY * mass, 0)

\* Physics.calculateAirResistance: velocity * (-AIR_RESISTANCE * |velocity|)
calculateAirResistance(velocity) ==
    VTimes(velocity, -TDiv(AIR_RESISTANCE * Length(velocity), ONE))

\* a faulty variant of handleGroundCollision: a particle exactly on the floor
\* is not in contact
handleGroundCollisionBelow(particle) ==
    IF particle.position.y < 0
    THEN [particle EXCEPT
            !.position = Vec(particle.position.x, 0, particle.position.z),
            !.velocity = Vec(TDiv(particle.velocity.x * 800, ONE),
                             IF particle.velocity.y < 0
                             THEN TDiv((-particle.velocity.y) * restitution, ONE)
                             ELSE particle.velocity.y,
                             TDiv(particle.velocity.z * 800, ONE))]
    ELSE particle

\* Physics.handleGroundCollision
handleGroundCollision(particle) ==
    IF particle.position.y <= 0
    THEN [particle EXCEPT
            !.position = Vec(particle.position.x, 0, particle.position.z),
            !.velocity = Vec(TDiv(particle.velocity.x * 800, ONE),
                             IF particle.velocity.y < 0
                             THEN TDiv((-particle.velocity.y) * restitution, ONE)
                             ELSE particle.velocity.y,
                             TDiv(particle.velocity.z * 800, ONE))]
    ELSE particle

\* the sum over all magnets of calculateMagneticForce (the forEach of
\* updateParticle)
RECURSIVE TotalMagneticForce(_, _, _)
TotalMagneticForce(position, ms, i) ==
    IF i > Len(ms) THEN ZeroVec
    ELSE VAdd(calculateMagneticForce(ms[i].position, position, ms[i].strength, ms[i].type),
              TotalMagneticForce(position, ms, i + 1))

\* a faulty variant of LimitTo: no speed limit
LimitToNothing(velocity, len) == velocity

\* the speed limit of updateParticle once the speed len is known
LimitTo(velocity, len) ==
    IF len > maxVelocity THEN VRescale(velocity, maxVelocity, len) ELSE velocity

\* the speed limit of updateParticle: velocity.normalize() * maxVelocity
LimitVelocity(velocity) == LimitTo(velocity, Length(velocity))

\* totalForce of updateParticle: gravity, the magnets, air resistance
TotalForce(particle, magneticForce) ==
    VAdd(VAdd(calculateGravity(particle.mass), magneticForce),
         calculateAirResistance(particle.velocity))

\* v * deltaTime, deltaTime = 1 / dtDen; dtDen = 0 stands for deltaTime = 0
TimesDelta(v, dtDen) == IF dtDen = 0 THEN ZeroVec ELSE VDivInt(v, dtDen)

\* velocity += (totalForce / mass) * deltaTime, then the speed limit
Accelerate(particle, totalForce, dtDen) ==
    [particle EXCEPT !.velocity =
        LimitVelocity(VAdd(particle.velocity,
                           TimesDelta(VDivInt(totalForce, particle.mass), dtDen)))]

\* position += velocity * deltaTime
Move(particle, dtDen) ==
    [particle EXCEPT !.position =
        VAdd(particle.position, TimesDelta(particle.velocity, dtDen))]

\* velocity *= DAMPING
Damp(particle) ==
    [particle EXCEPT !.velocity = VScale(particle.velocity, DAMPING)]

\* the part of Physics.updateParticle after the magnets' forces are summed:
\* magneticForce is that sum, deltaTime = 1 / dtDen
Integrate(particle, magneticForce, dtDen) ==
    Eval(Damp,
         Eval(handleGroundCollision,
              Eval(LAMBDA accelerated : Move(accelerated, dtDen),
                   Eval(LAMBDA totalForce : Accelerate(particle, totalForce, dtDen),
                        TotalForce(particle, magneticForce)))))

\* Physics.updateParticle
updateParticle(particle, ms, dtDen) ==
    Eval(LAMBDA magneticForce : Integrate(particle, magneticForce, dtDen),
         TotalMagneticForce(particle.position, ms, 1))

\* a faulty variant of Separate: only the second particle gives way, by the
\* whole overlap
SeparateSecondOnly(particle1, particle2, separation) ==
    << particle1,
       [particle2 EXCEPT !.position = VAdd(particle2.position, VTimes(separation, 2))] >>

\* particle1.position.sub(separation); particle2.position.add(separation)
Separate(particle1, particle2, separation) ==
    << [particle1 EXCEPT !.position = VSub(particle1.position, separation)],
       [particle2 EXCEPT !.position = VAdd(particle2.position, separation)] >>

\* the two velocity updates by impulse * mass along collisionDirection
Exchange(pair, collisionDirection, impulse) ==
    << [pair[1] EXCEPT !.velocity =
           VSub(pair[1].velocity,
                VScale(collisionDirection, TDiv(impulse * pair[2].mass, ONE)))],
       [pair[2] EXCEPT !.velocity =
           VAdd(pair[2].velocity,
                VScale(collisionDirection, TDiv(impulse * pair[1].mass, ONE)))] >>

\* a faulty variant of Bounce: the impulse is divided by the mass of the first
\* particle alone
BounceSingleMass(pair, collisionDirection, velocityAlongNormal) ==
    IF velocityAlongNormal > 0 THEN pair
    ELSE Exchange(pair, collisionDirection,
                  TDiv(2 * velocityAlongNormal * ONE, pair[1].mass))

\* the velocity part of handleParticleCollision: returns early when
\* velocityAlongNormal > 0
Bounce(pair, collisionDirection, velocityAlongNormal) ==
    IF velocityAlongNormal > 0 THEN pair
    ELSE Exchange(pair, collisionDirection,
                  TDiv(2 * velocityAlongNormal * ONE, pair[1].mass + pair[2].mass))

Collide(particle1, particle2, distance, collisionDirection) ==
    IF distance < particle1.radius + particle2.radius /\ distance > 0
    THEN Bounce(Separate(particle1, particle2,
                         VDivInt(VTimes(collisionDirection,
                                        particle1.radius + particle2.radius - distance),
                                 2 * ONE)),
                collisionDirection,
                Dot(VSub(particle1.velocity, particle2.velocity), collisionDirection))
    ELSE <<particle1, particle2>>

\* Physics.handleParticleCollision: the pair after the call
handleParticleCollision(particle1, particle2) ==
    Collide(particle1, particle2,
            Distance(particle1.position, particle2.position),
            Normalize(VSub(particle2.position, particle1.position)))

\* ------------------------------------------------------------- IronParticle

\* IronParticle.maxAge = Infinity: greater than every age
Infinity == 2147483647

\* the defaults of the IronParticle constructor: radius 0.02, mass 0.1
DefaultRadius == 20
DefaultMass == 100

\* new IronParticle(position, options): options gives mass and radius
NewIronParticle(id, position, options) ==
    [id |-> id, position |-> position, velocity |-> ZeroVec,
     mass |-> options.mass, radius |-> options.radius,
     age |-> 0, maxAge |-> Infinity, isDead |-> FALSE]

\* IronParticle.isOutOfBounds(boundary = 15)
boundary == 15000

isOutOfBounds(particle) ==
    \/ Abs(particle.position.x) > boundary
    \/ Abs(particle.position.z) > boundary
    \/ particle.position.y < -5000
    \/ particle.position.y > boundary

\* the least distance from position to a magnet (Infinity without magnets)
RECURSIVE ClosestDistance(_, _, _)
ClosestDistance(position, ms, i) ==
    IF i > Len(ms) THEN Infinity
    ELSE Min(Distance(position, ms[i].position), ClosestDistance(position, ms, i + 1))

\* IronParticle.checkMagnetInteraction: within 0.1 of a magnet the velocity is
\* cut to a tenth
checkMagnetInteraction(particle, ms) ==
    IF ClosestDistance(particle.position, ms, 1) < 100
    THEN [particle EXCEPT !.velocity = VScale(particle.velocity, 100)]
    ELSE particle

\* IronParticle.checkGroundStick
checkGroundStick(particle) ==
    IF particle.position.y <= 10 /\ Length(particle.velocity) < 100
    THEN [particle EXCEPT !.velocity = VScale(particle.velocity, 500)]
    ELSE particle

\* IronParticle.kill
kill(particle) == [particle EXCEPT !.isDead = TRUE]

\* IronParticle.update after this.age += deltaTime
UpdateAged(aged, ms, dtDen) ==
    IF aged.age > aged.maxAge THEN kill(aged)
    ELSE Eval(checkGroundStick,
              Eval(LAMBDA moved : checkMagnetInteraction(moved, ms),
                   updateParticle(aged, ms, dtDen)))

\* a faulty variant of ParticleUpdate: the age is left as it is
ParticleUpdateAgeless(particle, ms, dtDen) ==
    IF particle.isDead THEN particle
    ELSE UpdateAged(particle, ms, dtDen)

\* deltaTime = 1 / dtDen in the unit of age, 1/60 s (0 for deltaTime = 0)
AgeStep(dtDen) == IF dtDen = 0 THEN 0 ELSE 60 \div dtDen

\* IronParticle.update(deltaTime, magnets, physics), deltaTime = 1 / dtDen
ParticleUpdate(particle, ms, dtDen) ==
    IF particle.isDead THEN particle
    ELSE Eval(LAMBDA aged : UpdateAged(aged, ms, dtDen),
              [particle EXCEPT !.age = particle.age + AgeStep(dtDen)])

\* ---------------------------------------------------- MagneticSimulationApp

VARIABLES
    particles,      \* this.particles: the live collection, in array order
    particlePool,   \* this.particlePool: the reuse pool, a stack (top = last)
    magnets,        \* this.magnets: position, strength, type of each magnet
    isPaused,       \* this.isPaused
    nextId,         \* identity of the next particle object allocated by new
    lastOp,         \* the operation that led to this state, and what it did
    frameLog,       \* the phases of the last update(deltaTime), in order
    count,          \* operations done so far (bounds the exploration)
    probe,          \* arguments and results of calls of the Physics functions
    draggedMagnet,  \* this.draggedMagnet: index of the magnet in magnets, 0 = null
    isRunning,      \* this.isRunning
    animationFrameId, \* this.animationFrameId: a request handle, 0 = null
    frameRequests   \* the handles of the frame callbacks the browser holds

vars == <<particles, particlePool, magnets, isPaused, nextId, lastOp, frameLog,
          count, probe, draggedMagnet, isRunning, animationFrameId,
          frameRequests>>

\* MagneticSimulationApp constructor: maxParticles; removeParticle: pool
\* capacity; update: the collision pass runs below this live count
maxParticles == 1000
PoolCapacity == 50
CollisionLimit == 100

\* new Magnet(position, type, options): strength is options.strength as given,
\* isDragging starts false
NewMagnet(position, type, strength) ==
    [position |-> position, type |-> type, strength |-> strength,
     isDragging |-> FALSE]

\* Magnet.setStrength
setStrength(magnet, strength) ==
    [magnet EXCEPT !.strength = Clamp(strength, 100, 2000)]

\* setupInitialScene: a bar magnet in the middle, a ring magnet on the left
InitialMagnets ==
    << NewMagnet(Vec(0, 500, 0), "bar", 1000),
       NewMagnet(Vec(-3000, 300, 0), "ring", 800) >>

\* s without its element at index i (Array.splice(i, 1))
RemoveAt(s, i) == SubSeq(s, 1, i - 1) \o SubSeq(s, i + 1, Len(s))

\* st with event appended to the record of the frame
Logged(st, event) == [st EXCEPT !.log = Append(st.log, event)]

\* a faulty variant of removeParticle: the pool takes the particle whatever
\* its size
removeParticleUnbounded(st, index) ==
    IF index < 1 \/ index > Len(st.particles) THEN st
    ELSE [st EXCEPT
            !.particles = RemoveAt(st.particles, index),
            !.pool = Append(st.pool, st.particles[index])]

\* removeParticle(index) on the pair of collections
removeParticle(st, index) ==
    IF index < 1 \/ index > Len(st.particles) THEN st
    ELSE [st EXCEPT
            !.particles = RemoveAt(st.particles, index),
            !.pool = IF Len(st.pool) < PoolCapacity
                     THEN Append(st.pool, st.particles[index])
                     ELSE st.pool]

\* the middle of the index range lo..hi: a loop over a range is unfolded as the
\* loop over one half followed by the loop over the other half
Mid(lo, hi) == (lo + hi) \div 2

\* a faulty variant of OlderOf: >= for >, the last of the oldest is found
OlderOfLast(ps, oldestIndex, i) ==
    IF ps[i].age >= ps[oldestIndex].age THEN i ELSE oldestIndex

\* one turn of the scan of removeOldestParticle: index i replaces oldestIndex
\* when its age is greater than maxAge, the age at oldestIndex
OlderOf(ps, oldestIndex, i) ==
    IF ps[i].age > ps[oldestIndex].age THEN i ELSE oldestIndex

\* the scan of removeOldestParticle over the indices lo..hi in rising order,
\* entered with oldestIndex
RECURSIVE OldestFrom(_, _, _, _)
OldestFrom(ps, lo, hi, oldestIndex) ==
    IF lo > hi THEN oldestIndex
    ELSE IF lo = hi THEN OlderOf(ps, oldestIndex, lo)
    ELSE Eval(LAMBDA found : OldestFrom(ps, Mid(lo, hi) + 1, hi, found),
              OldestFrom(ps, lo, Mid(lo, hi), oldestIndex))

\* removeOldestParticle
removeOldestParticle(st) ==
    IF Len(st.particles) = 0 THEN st
    ELSE removeParticle(st, OldestFrom(st.particles, 2, Len(st.particles), 1))

\* a faulty variant of MakeRoom: no eviction at the ceiling
MakeRoomNever(st) == st

\* the head of addParticle: at the ceiling the oldest particle is removed
MakeRoom(st) ==
    IF Len(st.particles) >= maxParticles THEN removeOldestParticle(st) ELSE st

\* a faulty variant of Insert: a new particle is allocated whatever the pool
\* holds
InsertFresh(st, position, options, fresh) ==
    [st EXCEPT
        !.particles = Append(st.particles,
            NewIronParticle(fresh, position, options))]

\* a faulty variant of Insert: the pooled particle is reused but left on the
\* pool
InsertPeek(st, position, options, fresh) ==
    IF Len(st.pool) > 0
    THEN [st EXCEPT
            !.particles = Append(st.particles,
                [st.pool[Len(st.pool)] EXCEPT !.position = position,
                                             !.velocity = ZeroVec,
                                             !.isDead = FALSE,
                                             !.age = 0])]
    ELSE [st EXCEPT
            !.particles = Append(st.particles,
                NewIronParticle(fresh, position, options))]

\* the rest of addParticle: a pooled particle is reset and reused, else a new
\* one is allocated; then it is pushed
Insert(st, position, options, fresh) ==
    IF Len(st.pool) > 0
    THEN [st EXCEPT
            !.pool = SubSeq(st.pool, 1, Len(st.pool) - 1),
            !.particles = Append(st.particles,
                [st.pool[Len(st.pool)] EXCEPT !.position = position,
                                             !.velocity = ZeroVec,
                                             !.isDead = FALSE,
                                             !.age = 0])]
    ELSE [st EXCEPT
            !.particles = Append(st.particles,
                NewIronParticle(fresh, position, options))]

\* addParticle(position, options) on the collections; fresh is the identity
\* given to a newly allocated particle
addParticle(st, position, options, fresh) ==
    Eval(LAMBDA room : Insert(room, position, options, fresh), MakeRoom(st))

\* the particle at index i after its update
Stored(st, i, particle) ==
    Logged([st EXCEPT !.particles[i] = particle], <<"update", particle.id>>)

\* if (particle.isOutOfBounds()) this.removeParticle(i)
Culled(st, i) ==
    IF isOutOfBounds(st.particles[i])
    THEN Logged(removeParticle(st, i), <<"outOfBounds", st.particles[i].id>>)
    ELSE st

\* a faulty variant of UpdateFrom: the loop runs from lo up to hi, as long as
\* the index is within the collection, so that a removal moves the next
\* particle under the index that was just visited
RECURSIVE UpdateFromUp(_, _, _, _, _)
UpdateFromUp(st, ms, dtDen, lo, hi) ==
    IF lo > hi \/ lo > Len(st.particles) THEN st
    ELSE IF lo = hi
    THEN Eval(LAMBDA particle : Culled(Stored(st, lo, particle), lo),
              ParticleUpdate(st.particles[lo], ms, dtDen))
    ELSE Eval(LAMBDA lower : UpdateFromUp(lower, ms, dtDen, Mid(lo, hi) + 1, hi),
              UpdateFromUp(st, ms, dtDen, lo, Mid(lo, hi)))

\* the loop of updateParticles over the indices hi down to lo: update the
\* particle, then remove it at once when it is out of bounds
RECURSIVE UpdateFrom(_, _, _, _, _)
UpdateFrom(st, ms, dtDen, lo, hi) ==
    IF lo > hi THEN st
    ELSE IF lo = hi
    THEN Eval(LAMBDA particle : Culled(Stored(st, lo, particle), lo),
              ParticleUpdate(st.particles[lo], ms, dtDen))
    ELSE Eval(LAMBDA upper : UpdateFrom(upper, ms, dtDen, lo, Mid(lo, hi)),
              UpdateFrom(st, ms, dtDen, Mid(lo, hi) + 1, hi))

\* updateParticles(deltaTime)
updateParticles(st, ms, dtDen) == UpdateFrom(st, ms, dtDen, 1, Len(st.particles))

\* the two particles of a pair written back
SetPair(ps, i, j, pair) == [ps EXCEPT ![i] = pair[1], ![j] = pair[2]]

\* the inner loop of handleParticleCollisions for particle i: j from lo up to
\* hi, each call seeing what the calls before it left
RECURSIVE CollideWith(_, _, _, _)
CollideWith(ps, i, lo, hi) ==
    IF lo > hi THEN ps
    ELSE IF lo = hi
    THEN Eval(LAMBDA pair : SetPair(ps, i, lo, pair),
              handleParticleCollision(ps[i], ps[lo]))
    ELSE Eval(LAMBDA lower : CollideWith(lower, i, Mid(lo, hi) + 1, hi),
              CollideWith(ps, i, lo, Mid(lo, hi)))

\* the outer loop of handleParticleCollisions: i from lo up to hi
RECURSIVE CollideFrom(_, _, _)
CollideFrom(ps, lo, hi) ==
    IF lo > hi THEN ps
    ELSE IF lo = hi THEN CollideWith(ps, lo, lo + 1, Len(ps))
    ELSE Eval(LAMBDA lower : CollideFrom(lower, Mid(lo, hi) + 1, hi),
              CollideFrom(ps, lo, Mid(lo, hi)))

\* handleParticleCollisions: pairs (i, j), i < j, in loop order
handleParticleCollisions(ps) == CollideFrom(ps, 1, Len(ps) - 1)

\* a faulty variant of Swept: a dead particle is left where it is
SweptNever(st, i) == st

\* if (this.particles[i].isDead) this.removeParticle(i)
Swept(st, i) ==
    IF st.particles[i].isDead
    THEN Logged(removeParticle(st, i), <<"cleanup", st.particles[i].id>>)
    ELSE st

\* the loop of cleanupDeadParticles over the indices hi down to lo
RECURSIVE CleanupFrom(_, _, _)
CleanupFrom(st, lo, hi) ==
    IF lo > hi THEN st
    ELSE IF lo = hi THEN Swept(st, lo)
    ELSE Eval(LAMBDA upper : CleanupFrom(upper, lo, Mid(lo, hi)),
              CleanupFrom(st, Mid(lo, hi) + 1, hi))

\* cleanupDeadParticles
cleanupDeadParticles(st) == CleanupFrom(st, 1, Len(st.particles))

\* a faulty variant of CollisionPass: the pass runs whatever the live count
CollisionPassAlways(st) ==
    Eval(LAMBDA ps : Logged([st EXCEPT !.particles = ps], <<"collisions", 0>>),
         handleParticleCollisions(st.particles))

\* if (this.particles.length < 100) this.handleParticleCollisions()
CollisionPass(st) ==
    IF Len(st.particles) < CollisionLimit
    THEN Eval(LAMBDA ps : Logged([st EXCEPT !.particles = ps], <<"collisions", 0>>),
              handleParticleCollisions(st.particles))
    ELSE st

\* a faulty variant of update: the collision pass before updateParticles
updateCollisionsFirst(st, ms, dtDen) ==
    Eval(cleanupDeadParticles,
         Eval(LAMBDA collided : updateParticles(collided, ms, dtDen), CollisionPass(st)))

\* update(deltaTime): particles, then collisions below the limit, then cleanup
update(st, ms, dtDen) ==
    Eval(cleanupDeadParticles, Eval(CollisionPass, updateParticles(st, ms, dtDen)))

\* the loop of clearParticles over the indices hi down to lo
RECURSIVE ClearFrom(_, _, _)
ClearFrom(st, lo, hi) ==
    IF lo > hi THEN st
    ELSE IF lo = hi THEN removeParticle(st, lo)
    ELSE Eval(LAMBDA upper : ClearFrom(upper, lo, Mid(lo, hi)),
              ClearFrom(st, Mid(lo, hi) + 1, hi))

\* clearParticles: removeParticle for every index, from the last down
clearParticles(st) == ClearFrom(st, 1, Len(st.particles))

\* the collections as one record, for the operators above
Collections == [particles |-> particles, pool |-> particlePool, log |-> <<>>]

\* ------------------------------------------------------------------- inputs

\* bound of the exploration: operations in one behaviour of the application
MaxOps == 4

\* bound of the exploration: calls of updateParticle on one particle
MaxSteps == 3

\* deltaTime of a frame, as the denominator of 1/den seconds: animate caps
\* deltaTime at 1/30 s, the target rate is 60 frames a second
DeltaTimes == {30, 60}

\* positions handed to addParticle: two that overlap each other on the floor at
\* the world boundary, and one beyond the boundary
SpawnPositions ==
    { Vec(15000, 0, 0), Vec(14980, 20, 0), Vec(15100, 0, 0) }

\* options handed to addParticle: none (the defaults apply)
NoOptions == [mass |-> DefaultMass, radius |-> DefaultRadius]

SpawnOptions == { NoOptions }

\* values of the strength slider handed to onMagnetStrengthChange
Strengths == {2000}

\* the magnets a drag moves, and where it leaves them (y is half the height)
DragMagnets == {1}
DragPositions == { Vec(12000, 500, 0) }

\* no call of a Physics function is being followed
NoProbe == [kind |-> "none"]

Op(name, ran, atCeiling) == [op |-> name, ran |-> ran, atCeiling |-> atCeiling]

\* the call addParticle(position, options), with the arguments it was given
SpawnOp(position, options, atCeiling) ==
    [op |-> "addParticle", ran |-> FALSE, atCeiling |-> atCeiling,
     position |-> position, options |-> options]

\* the frame callback animate() with deltaTime = 1 / dtDen; ran: update ran
FrameOp(dtDen, ran) ==
    [op |-> "animate", ran |-> ran, atCeiling |-> FALSE, dtDen |-> dtDen]

\* magnet positions of the calls of calculateMagneticForce that are followed
ProbeSources == { Vec(0, 1000, 0), Vec(0, 500, 0), Vec(-3000, 300, 0) }

\* particle positions of those calls: at the magnet, nearer than 0.1, at 0.1
\* exactly, beside and below the magnet, on the ring of radius 1 around the ring
\* magnet's axis, and in the far corner of the world
ProbeTargets ==
    { Vec(0, 1000, 0), Vec(0, 950, 0), Vec(0, 900, 0), Vec(60, 1000, 60),
      Vec(80, 1000, 60), Vec(0, 0, 0), Vec(1000, 1000, 0), Vec(500, 500, 0),
      Vec(-3000, 300, 1000), Vec(0, 3000, 0), Vec(3000, 4000, 0),
      Vec(15000, 0, 15000) }

\* strengths of those calls: the constructor takes any number
ProbeStrengths == { -1000, 0, 100, 1000, 2000, 5000 }

ForceProbes ==
    { [kind |-> "force", sourcePos |-> s, targetPos |-> t, magnetStrength |-> m,
       done |-> {}, force |-> [type \in MagnetTypes |-> ZeroVec]] :
         s \in ProbeSources, t \in ProbeTargets, m \in ProbeStrengths }

\* the particles handed to updateParticle: at rest or moving, below and above
\* the speed limit, on the floor or in the air, of mass 0.1 or 0.05
ProbeVelocities ==
    { ZeroVec, Vec(30000, 0, 0), Vec(0, -30000, 0), Vec(20000, 20000, 0),
      Vec(0, 19000, 0) }

ProbeParticles ==
    { [NewIronParticle(1, p, [mass |-> m, radius |-> DefaultRadius])
          EXCEPT !.velocity = v] :
         p \in { Vec(0, 0, 0), Vec(0, 2000, 0), Vec(500, 400, 0) },
         v \in ProbeVelocities, m \in { DefaultMass, 50 } }

\* the magnets handed to updateParticle
ProbeMagnets ==
    { << NewMagnet(Vec(0, 1000, 0), "bar", 1000) >>,
      InitialMagnets,
      << NewMagnet(Vec(0, 500, 0), "horseshoe", 2000),
         NewMagnet(Vec(200, 500, 0), "bar", 5000) >> }

\* one particle followed twice from the same start: under the magnets, and with
\* no magnet (gravity alone)
UpdateProbes ==
    { [kind |-> "update", start |-> p, magnets |-> ms, dtDen |-> d, steps |-> 0,
       withMagnets |-> p, alone |-> p] :
         p \in ProbeParticles, ms \in ProbeMagnets, d \in DeltaTimes }

\* ------------------------------------------------------------------ actions

\* the collections of the application after an operation
Store(st) ==
    /\ particles' = st.particles
    /\ particlePool' = st.pool

\* the collections after addParticle: the identity nextId is used up when the
\* pushed particle was newly allocated
StoreSpawn(st) ==
    /\ Store(st)
    /\ nextId' = IF st.particles[Len(st.particles)].id = nextId
                 THEN nextId + 1 ELSE nextId

\* the collections after update(deltaTime), and what the frame did
StoreFrame(st) ==
    /\ Store(st)
    /\ frameLog' = st.log

\* addParticle(position, options)
AddParticle(position, options) ==
    /\ count < MaxOps
    /\ StoreSpawn(addParticle(Collections, position, options, nextId))
    /\ lastOp' = SpawnOp(position, options, Len(particles) >= maxParticles)
    /\ count' = count + 1
    /\ UNCHANGED <<magnets, isPaused, frameLog, probe>>
    /\ UNCHANGED <<draggedMagnet, isRunning, animationFrameId, frameRequests>>

\* requestAnimationFrame: the handle of the new request, the least one that
\* no request among requests has (a handle is only ever compared)
RequestId(requests) ==
    CHOOSE id \in 1..(Cardinality(requests) + 1) :
        id \notin requests /\ \A lower \in 1..(id - 1) : lower \in requests

\* this.animationFrameId = requestAnimationFrame(() => this.animate()), the
\* requests left being those in requests
RequestFrame(requests) ==
    /\ animationFrameId' = RequestId(requests)
    /\ frameRequests' = requests \cup {RequestId(requests)}

\* a faulty variant of Animate: update(deltaTime) runs paused or not
AnimateAlways(dtDen) ==
    /\ count < MaxOps
    /\ \E due \in frameRequests :
          IF isRunning
          THEN /\ RequestFrame(frameRequests \ {due})
               /\ StoreFrame(update(Collections, magnets, dtDen))
               /\ lastOp' = FrameOp(dtDen, TRUE)
          ELSE /\ frameRequests' = frameRequests \ {due}
               /\ frameLog' = <<>>
               /\ lastOp' = FrameOp(dtDen, FALSE)
               /\ UNCHANGED <<particles, particlePool, animationFrameId>>
    /\ count' = count + 1
    /\ UNCHANGED <<magnets, isPaused, nextId, probe, draggedMagnet, isRunning>>

\* animate() as the frame callback of a request that is due: it returns at
\* once when the loop is not running; else it requests the next frame, and
\* update(deltaTime) runs unless paused
Animate(dtDen) ==
    /\ count < MaxOps
    /\ \E due \in frameRequests :
          IF isRunning
          THEN /\ RequestFrame(frameRequests \ {due})
               /\ IF isPaused
                  THEN /\ UNCHANGED <<particles, particlePool>>
                       /\ frameLog' = <<>>
                  ELSE StoreFrame(update(Collections, magnets, dtDen))
               /\ lastOp' = FrameOp(dtDen, ~isPaused)
          ELSE /\ frameRequests' = frameRequests \ {due}
               /\ frameLog' = <<>>
               /\ lastOp' = FrameOp(dtDen, FALSE)
               /\ UNCHANGED <<particles, particlePool, animationFrameId>>
    /\ count' = count + 1
    /\ UNCHANGED <<magnets, isPaused, nextId, probe, draggedMagnet, isRunning>>

\* start(): nothing when the loop runs already; else isRunning is set, the
\* pause is lifted and animate() is called at once: it requests a frame and
\* runs update(deltaTime) with the time since start() read the clock, 0
Start ==
    /\ count < MaxOps
    /\ IF isRunning
       THEN UNCHANGED <<particles, particlePool, isPaused, frameLog, isRunning,
                        animationFrameId, frameRequests>>
       ELSE /\ isRunning' = TRUE
            /\ isPaused' = FALSE
            /\ RequestFrame(frameRequests)
            /\ StoreFrame(update(Collections, magnets, 0))
    /\ lastOp' = Op("start", ~isRunning, FALSE)
    /\ count' = count + 1
    /\ UNCHANGED <<magnets, nextId, probe, draggedMagnet>>

\* a faulty variant of Stop: the requested frame is not cancelled
StopWithoutCancel ==
    /\ count < MaxOps
    /\ isRunning' = FALSE
    /\ isPaused' = FALSE
    /\ animationFrameId' = 0
    /\ lastOp' = Op("stop", FALSE, FALSE)
    /\ count' = count + 1
    /\ UNCHANGED <<particles, particlePool, magnets, nextId, frameLog, probe,
                   draggedMagnet, frameRequests>>

\* stop(): isRunning and isPaused are cleared; the request that
\* animationFrameId names is cancelled and animationFrameId set to null
Stop ==
    /\ count < MaxOps
    /\ isRunning' = FALSE
    /\ isPaused' = FALSE
    /\ IF animationFrameId # 0
       THEN /\ frameRequests' = frameRequests \ {animationFrameId}
            /\ animationFrameId' = 0
       ELSE UNCHANGED <<animationFrameId, frameRequests>>
    /\ lastOp' = Op("stop", FALSE, FALSE)
    /\ count' = count + 1
    /\ UNCHANGED <<particles, particlePool, magnets, nextId, frameLog, probe,
                   draggedMagnet>>

\* pause()
Pause ==
    /\ count < MaxOps
    /\ isPaused' = TRUE
    /\ lastOp' = Op("pause", FALSE, FALSE)
    /\ count' = count + 1
    /\ UNCHANGED <<particles, particlePool, magnets, nextId, frameLog, probe>>
    /\ UNCHANGED <<draggedMagnet, isRunning, animationFrameId, frameRequests>>

\* resume()
Resume ==
    /\ count < MaxOps
    /\ isPaused' = FALSE
    /\ lastOp' = Op("resume", FALSE, FALSE)
    /\ count' = count + 1
    /\ UNCHANGED <<particles, particlePool, magnets, nextId, frameLog, probe>>
    /\ UNCHANGED <<draggedMagnet, isRunning, animationFrameId, frameRequests>>

\* clearParticles()
ClearParticles ==
    /\ count < MaxOps
    /\ Store(clearParticles(Collections))
    /\ lastOp' = Op("clearParticles", FALSE, FALSE)
    /\ count' = count + 1
    /\ UNCHANGED <<magnets, isPaused, nextId, frameLog, probe>>
    /\ UNCHANGED <<draggedMagnet, isRunning, animationFrameId, frameRequests>>

\* onMagnetStrengthChange(strength): setStrength on every magnet
OnMagnetStrengthChange(strength) ==
    /\ count < MaxOps
    /\ magnets' = [i \in 1..Len(magnets) |-> setStrength(magnets[i], strength)]
    /\ lastOp' = Op("onMagnetStrengthChange", FALSE, FALSE)
    /\ count' = count + 1
    /\ UNCHANGED <<particles, particlePool, isPaused, nextId, frameLog, probe>>
    /\ UNCHANGED <<draggedMagnet, isRunning, animationFrameId, frameRequests>>

\* reset(): clearParticles, the first two magnets back to their places, every
\* strength to 1.0
Reset ==
    /\ count < MaxOps
    /\ Store(clearParticles(Collections))
    /\ magnets' = [i \in 1..Len(magnets) |->
                     setStrength(
                         [magnets[i] EXCEPT !.position =
                             IF i = 1 THEN Vec(0, 500, 0)
                             ELSE IF i = 2 THEN Vec(-3000, 300, 0)
                             ELSE @],
                         1000)]
    /\ lastOp' = Op("reset", FALSE, FALSE)
    /\ count' = count + 1
    /\ UNCHANGED <<isPaused, nextId, frameLog, probe>>
    /\ UNCHANGED <<draggedMagnet, isRunning, animationFrameId, frameRequests>>

\* a whole drag of magnet i: the button goes down on the magnet, the pointer
\* moves (Magnet.onMouseMove while dragging: the magnet follows it on the
\* ground plane), the button goes up
DragMagnet(i, position) ==
    /\ count < MaxOps
    /\ i \in 1..Len(magnets)
    /\ magnets' = [magnets EXCEPT ![i].position = position,
                                  ![i].isDragging = FALSE]
    /\ draggedMagnet' = 0
    /\ lastOp' = Op("dragMagnet", FALSE, FALSE)
    /\ count' = count + 1
    /\ UNCHANGED <<particles, particlePool, isPaused, nextId, frameLog, probe,
                   isRunning, animationFrameId, frameRequests>>

\* the first magnet of magnets, in array order, that the ray of the pointer
\* meets (0: none), hits being the magnets the ray meets
FirstHit(hits) ==
    IF hits = {} THEN 0 ELSE CHOOSE i \in hits : \A j \in hits : i <= j

\* onMouseDown(event): Magnet.onMouseDown on the magnets in array order, up to
\* the first one that the ray meets; that one starts dragging and becomes
\* draggedMagnet
OnMouseDown(hits) ==
    /\ count < MaxOps
    /\ hits \subseteq 1..Len(magnets)
    /\ IF FirstHit(hits) = 0
       THEN UNCHANGED <<magnets, draggedMagnet>>
       ELSE /\ magnets' = [magnets EXCEPT ![FirstHit(hits)].isDragging = TRUE]
            /\ draggedMagnet' = FirstHit(hits)
    /\ lastOp' = Op("onMouseDown", FALSE, FALSE)
    /\ count' = count + 1
    /\ UNCHANGED <<particles, particlePool, isPaused, nextId, frameLog, probe,
                   isRunning, animationFrameId, frameRequests>>

\* onMouseMove(event): Magnet.onMouseMove on draggedMagnet, which follows the
\* pointer to position when it is dragging
OnMouseMove(position) ==
    /\ count < MaxOps
    /\ magnets' = IF draggedMagnet # 0 /\ magnets[draggedMagnet].isDragging
                  THEN [magnets EXCEPT ![draggedMagnet].position = position]
                  ELSE magnets
    /\ lastOp' = Op("onMouseMove", FALSE, FALSE)
    /\ count' = count + 1
    /\ UNCHANGED <<particles, particlePool, isPaused, nextId, frameLog, probe,
                   draggedMagnet, isRunning, animationFrameId, frameRequests>>

\* onMouseUp(event): Magnet.onMouseUp on draggedMagnet, then draggedMagnet is
\* null
OnMouseUp ==
    /\ count < MaxOps
    /\ IF draggedMagnet # 0
       THEN /\ magnets' = [magnets EXCEPT ![draggedMagnet].isDragging = FALSE]
            /\ draggedMagnet' = 0
       ELSE UNCHANGED <<magnets, draggedMagnet>>
    /\ lastOp' = Op("onMouseUp", FALSE, FALSE)
    /\ count' = count + 1
    /\ UNCHANGED <<particles, particlePool, isPaused, nextId, frameLog, probe,
                   isRunning, animationFrameId, frameRequests>>

\* a call calculateMagneticForce(sourcePos, targetPos, magnetStrength,
\* magnetType) on the arguments in probe, its result kept in probe
CalculateMagneticForce(magnetType) ==
    /\ probe.kind = "force"
    /\ magnetType \notin probe.done
    /\ probe' = [probe EXCEPT
                    !.done = @ \cup {magnetType},
                    !.force[magnetType] =
                        calculateMagneticForce(probe.sourcePos, probe.targetPos,
                                               probe.magnetStrength, magnetType)]
    /\ UNCHANGED <<particles, particlePool, magnets, isPaused, nextId, lastOp,
                   frameLog, count>>
    /\ UNCHANGED <<draggedMagnet, isRunning, animationFrameId, frameRequests>>

\* a call updateParticle(particle, magnets, deltaTime) on each of the two
\* copies of the particle in probe: one with the magnets, one with none
UpdateParticle ==
    /\ probe.kind = "update"
    /\ probe.steps < MaxSteps
    /\ probe' = [probe EXCEPT
                    !.steps = @ + 1,
                    !.withMagnets = updateParticle(@, probe.magnets, probe.dtDen),
                    !.alone = updateParticle(@, <<>>, probe.dtDen)]
    /\ UNCHANGED <<particles, particlePool, magnets, isPaused, nextId, lastOp,
                   frameLog, count>>
    /\ UNCHANGED <<draggedMagnet, isRunning, animationFrameId, frameRequests>>

\* ----------------------------------------------------------- specifications

\* init() has called start(): the loop runs and its first frame is requested;
\* no magnet is being dragged
Started ==
    /\ draggedMagnet = 0
    /\ isRunning = TRUE
    /\ animationFrameId = 1
    /\ frameRequests = {1}

\* the application's variables after the constructor and init(): the initial
\* scene, no particle, running
InitApp ==
    /\ particles = <<>>
    /\ particlePool = <<>>
    /\ magnets = InitialMagnets
    /\ isPaused = FALSE
    /\ nextId = 1
    /\ lastOp = Op("init", FALSE, FALSE)
    /\ frameLog = <<>>
    /\ count = 0
    /\ Started

Init ==
    /\ InitApp
    /\ probe = NoProbe

Next ==
    \/ \E position \in SpawnPositions, options \in SpawnOptions :
          AddParticle(position, options)
    \/ \E dtDen \in DeltaTimes : Animate(dtDen)
    \/ Pause
    \/ Resume
    \/ ClearParticles
    \/ Reset
    \/ \E strength \in Strengths : OnMagnetStrengthChange(strength)
    \/ \E i \in DragMagnets, position \in DragPositions : DragMagnet(i, position)

Spec == Init /\ [][Next]_vars

\* the collections after n calls addParticle(position, {}) in a row, the
\* particles allocated being numbered from fresh on
RECURSIVE SpawnMany(_, _, _, _)
SpawnMany(st, position, n, fresh) ==
    IF n = 0 THEN st
    ELSE IF n = 1 THEN addParticle(st, position, NoOptions, fresh)
    ELSE Eval(LAMBDA first : SpawnMany(first, position, n - n \div 2, fresh + n \div 2),
              SpawnMany(st, position, n \div 2, fresh))

\* where the particles of a full scene were dropped: on the floor, right of
\* the magnets
CrowdPosition == Vec(8000, 0, 0)

\* a scene one particle short of maxParticles: half of the particles were
\* spawned, one frame of 1/60 s ran, and the other half were spawned
CrowdedScene ==
    Eval(LAMBDA aged : SpawnMany(aged, CrowdPosition,
                                 maxParticles - 1 - maxParticles \div 2,
                                 maxParticles \div 2 + 1),
         Eval(LAMBDA first : update(first, InitialMagnets, 60),
              SpawnMany([particles |-> <<>>, pool |-> <<>>, log |-> <<>>],
                        CrowdPosition, maxParticles \div 2, 1)))

InitCrowded ==
    /\ particles = CrowdedScene.particles
    /\ particlePool = CrowdedScene.pool
    /\ magnets = InitialMagnets
    /\ isPaused = FALSE
    /\ nextId = maxParticles
    /\ lastOp = Op("init", FALSE, FALSE)
    /\ frameLog = <<>>
    /\ count = 0
    /\ Started
    /\ probe = NoProbe

NextCrowded ==
    \/ AddParticle(CrowdPosition, NoOptions)
    \/ Animate(60)
    \/ Pause
    \/ Resume
    \/ ClearParticles
    \/ Reset

SpecCrowded == InitCrowded /\ [][NextCrowded]_vars

\* calls of the Physics functions on their own
InitPhysics ==
    /\ InitApp
    /\ probe \in ForceProbes \cup UpdateProbes

NextPhysics ==
    \/ \E magnetType \in MagnetTypes : CalculateMagneticForce(magnetType)
    \/ UpdateParticle

SpecPhysics == InitPhysics /\ [][NextPhysics]_vars

\* per-particle overrides handed to addParticle with a spawn request: none, or
\* a mass of 0.05 and a radius of 0.03
SpawnOverrides == { NoOptions, [mass |-> 50, radius |-> 30] }

\* values a caller gives to the maxAge field of a particle that addParticle
\* returned: a sixtieth of a second
MaxAges == {1}

\* particle.maxAge = maxAge on the live particle at index i
SetMaxAge(i, maxAge) ==
    /\ count < MaxOps
    /\ i \in 1..Len(particles)
    /\ particles' = [particles EXCEPT ![i].maxAge = maxAge]
    /\ lastOp' = Op("setMaxAge", FALSE, FALSE)
    /\ count' = count + 1
    /\ UNCHANGED <<particlePool, magnets, isPaused, nextId, frameLog, probe>>
    /\ UNCHANGED <<draggedMagnet, isRunning, animationFrameId, frameRequests>>

\* a scene with a full pool: PoolCapacity particles were spawned beyond the
\* world boundary and two more at the boundary, and one frame of 1/60 s ran
PoolScene ==
    Eval(LAMBDA spawned : update(spawned, InitialMagnets, 60),
         Eval(LAMBDA one : addParticle(one, Vec(15000, 0, 0), NoOptions,
                                       PoolCapacity + 2),
              Eval(LAMBDA gone : addParticle(gone, Vec(14980, 20, 0), NoOptions,
                                             PoolCapacity + 1),
                   SpawnMany([particles |-> <<>>, pool |-> <<>>, log |-> <<>>],
                             Vec(15100, 0, 0), PoolCapacity, 1))))

\* the life of the particles: spawned with or without overrides, aged and
\* moved by the frames, given a maxAge, removed, pooled and reused; from the
\* empty scene and from the scene with a full pool
InitLifecycle ==
    /\ \/ /\ particles = <<>>
          /\ particlePool = <<>>
          /\ nextId = 1
       \/ /\ particles = PoolScene.particles
          /\ particlePool = PoolScene.pool
          /\ nextId = PoolCapacity + 3
    /\ magnets = InitialMagnets
    /\ isPaused = FALSE
    /\ lastOp = Op("init", FALSE, FALSE)
    /\ frameLog = <<>>
    /\ count = 0
    /\ Started
    /\ probe = NoProbe

NextLifecycle ==
    \/ \E position \in SpawnPositions, options \in SpawnOverrides :
          AddParticle(position, options)
    \/ \E i \in {1, Len(particles)}, maxAge \in MaxAges : SetMaxAge(i, maxAge)
    \/ \E dtDen \in DeltaTimes : Animate(dtDen)
    \/ Pause
    \/ Resume
    \/ ClearParticles

SpecLifecycle == InitLifecycle /\ [][NextLifecycle]_vars

\* a scene two particles short of CollisionLimit: the particles were dropped
\* in one place on the floor, right of the magnets
GateScene ==
    SpawnMany([particles |-> <<>>, pool |-> <<>>, log |-> <<>>],
              CrowdPosition, CollisionLimit - 2, 1)

\* frames around the limit of the collision pass: spawns take the live count
\* from below CollisionLimit to it and beyond, culls take it back
InitGate ==
    /\ particles = GateScene.particles
    /\ particlePool = GateScene.pool
    /\ magnets = InitialMagnets
    /\ isPaused = FALSE
    /\ nextId = CollisionLimit - 1
    /\ lastOp = Op("init", FALSE, FALSE)
    /\ frameLog = <<>>
    /\ count = 0
    /\ Started
    /\ probe = NoProbe

NextGate ==
    \/ \E position \in SpawnPositions : AddParticle(position, NoOptions)
    \/ Animate(60)

SpecGate == InitGate /\ [][NextGate]_vars

\* what a caller hands to addMagnet: a place, a type (one of the three, or a
\* string that names none) and options.strength (inside and outside the range
\* of the strength slider)
MagnetPlaces == { Vec(3000, 500, 0) }
TypeStrings == MagnetTypes \cup {"disc"}
GivenStrengths == {1000, 5000, 50}

\* options handed to addParticle: the defaults, a negative mass, a negative
\* radius
GivenOptions ==
    { NoOptions,
      [mass |-> -100, radius |-> DefaultRadius],
      [mass |-> DefaultMass, radius |-> -20] }

\* values of the strength slider, and values beyond its ends
SliderStrengths == {50, 1500, 5000}

\* addMagnet(position, type, options): a new Magnet is pushed to magnets
AddMagnet(position, type, strength) ==
    /\ count < MaxOps
    /\ magnets' = Append(magnets, NewMagnet(position, type, strength))
    /\ lastOp' = Op("addMagnet", FALSE, FALSE)
    /\ count' = count + 1
    /\ UNCHANGED <<particles, particlePool, isPaused, nextId, frameLog, probe>>
    /\ UNCHANGED <<draggedMagnet, isRunning, animationFrameId, frameRequests>>

\* the construction and configuration of magnets and particles: what callers
\* hand to addMagnet, addParticle and the strength slider
NextConfig ==
    \/ \E position \in MagnetPlaces, type \in TypeStrings,
          strength \in GivenStrengths : AddMagnet(position, type, strength)
    \/ \E options \in GivenOptions : AddParticle(CrowdPosition, options)
    \/ \E strength \in SliderStrengths : OnMagnetStrengthChange(strength)
    \/ \E i \in DragMagnets, position \in DragPositions : DragMagnet(i, position)
    \/ ClearParticles
    \/ Reset

SpecConfig == Init /\ [][NextConfig]_vars

\* the particles handed to handleGroundCollision: below, on and above the
\* floor, falling, rising or level, with and without horizontal velocity
GroundProbes ==
    { [kind |-> "ground", done |-> FALSE,
       before |-> [NewIronParticle(1, Vec(500, y, -200), NoOptions)
                      EXCEPT !.velocity = Vec(vx, vy, vz)],
       after |-> << >>] :
         y \in { -50, 0, 10, 2000 }, vy \in { -3000, 0, 2000 },
         vx \in { 0, 1000, -1500 }, vz \in { 0, 500 } }

\* where the second particle of a pair is, seen from the first: at the same
\* place, overlapping it along an axis or obliquely, touching it, apart
PairOffsets ==
    { ZeroVec, Vec(30, 0, 0), Vec(-30, 0, 0), Vec(18, 24, 0), Vec(40, 0, 0),
      Vec(0, 0, 50), Vec(100, 0, 0) }

\* velocities of the particles of a pair
PairVelocities ==
    { ZeroVec, Vec(1000, 0, 0), Vec(-1000, 0, 0), Vec(0, 0, 15000),
      Vec(15000, 0, 0) }

\* masses and radii of the particles of a pair: the defaults, the second
\* particle lighter or larger
PairMasses == { <<DefaultMass, DefaultMass>>, <<DefaultMass, 50>>, <<50, DefaultMass>> }
PairRadii == { <<DefaultRadius, DefaultRadius>>, <<DefaultRadius, 30>> }

\* the pairs handed to handleParticleCollision
CollisionProbes ==
    { [kind |-> "collision", done |-> FALSE,
       before |->
          << [NewIronParticle(1, Vec(0, 1000, 0),
                              [mass |-> m[1], radius |-> r[1]])
                 EXCEPT !.velocity = v1],
             [NewIronParticle(2, VAdd(Vec(0, 1000, 0), offset),
                              [mass |-> m[2], radius |-> r[2]])
                 EXCEPT !.velocity = v2] >>,
       after |-> << >>] :
         offset \in PairOffsets, v1 \in PairVelocities, v2 \in PairVelocities,
         m \in PairMasses, r \in PairRadii }

\* a call handleGroundCollision(particle) on the particle in probe
HandleGroundCollision ==
    /\ probe.kind = "ground"
    /\ ~probe.done
    /\ probe' = [probe EXCEPT !.done = TRUE,
                               !.after = << handleGroundCollision(probe.before) >>]
    /\ UNCHANGED <<particles, particlePool, magnets, isPaused, nextId, lastOp,
                   frameLog, count>>
    /\ UNCHANGED <<draggedMagnet, isRunning, animationFrameId, frameRequests>>

\* a call handleParticleCollision(particle1, particle2) on the pair in probe
HandleParticleCollision ==
    /\ probe.kind = "collision"
    /\ ~probe.done
    /\ probe' = [probe EXCEPT !.done = TRUE,
                               !.after = handleParticleCollision(probe.before[1],
                                                                 probe.before[2])]
    /\ UNCHANGED <<particles, particlePool, magnets, isPaused, nextId, lastOp,
                   frameLog, count>>
    /\ UNCHANGED <<draggedMagnet, isRunning, animationFrameId, frameRequests>>

\* calls of the two contact functions of Physics on their own
InitContact ==
    /\ InitApp
    /\ probe \in GroundProbes \cup CollisionProbes

NextContact ==
    \/ HandleGroundCollision
    \/ HandleParticleCollision

SpecContact == InitContact /\ [][NextContact]_vars

\* options handed to addParticle: a light particle (0.005 kg) of radius 0.5
LightLargeOptions == [mass |-> 5, radius |-> 500]

\* positions handed to addParticle: at the ring magnet, 0.3 beside it, and
\* between the two magnets
ImpactPositions == { Vec(-3000, 300, 0), Vec(-3000, 300, 300), Vec(-1000, 300, 0) }

\* light particles dropped near the magnets of the initial scene, and frames
NextImpact ==
    \/ \E position \in ImpactPositions : AddParticle(position, LightLargeOptions)
    \/ Animate(60)

SpecImpact == Init /\ [][NextImpact]_vars

\* the magnets that the ray of a mousedown meets: none, one, or both of the
\* initial scene
PointerHits == SUBSET {1, 2}

\* where a mousemove takes a dragged magnet (y is half the height)
PointerPositions == { Vec(12000, 500, 0), Vec(-6000, 500, 4000), Vec(0, 500, 0) }

\* the pointer events on their own
NextDrag ==
    \/ \E hits \in PointerHits : OnMouseDown(hits)
    \/ \E position \in PointerPositions : OnMouseMove(position)
    \/ OnMouseUp

SpecDrag == Init /\ [][NextDrag]_vars

\* the control of the loop: start, stop, pause, resume, the frame callbacks,
\* and particles for the frames to move
NextLoop ==
    \/ Start
    \/ Stop
    \/ Pause
    \/ Resume
    \/ \E dtDen \in DeltaTimes : Animate(dtDen)
    \/ \E position \in SpawnPositions : AddParticle(position, NoOptions)

SpecLoop == Init /\ [][NextLoop]_vars

\* --------------------------------------------------------------- properties

\* the state is the end of a running step: animate() ran update(deltaTime)
RanFrame == lastOp.op = "animate" /\ lastOp.ran

\* ps[k] is the first of the oldest particles of ps
IsOldest(ps, k) ==
    /\ \A j \in 1..Len(ps) : ps[j].age <= ps[k].age
    /\ \A j \in 1..(k - 1) : ps[j].age < ps[k].age

\* the magnet types for which calculateMagneticForce has been called on the
\* arguments in probe
ForceCalls == IF probe.kind = "force" THEN probe.done ELSE {}

\* the distance between the magnet and the particle of the calls in probe
ProbeDistance == Distance(probe.sourcePos, probe.targetPos)

\* the vector from the particle to the magnet of the calls in probe
TowardMagnet == VSub(probe.sourcePos, probe.targetPos)

\* a and b have the same sign, or both are 0
SameSign(a, b) == (a > 0 /\ b > 0) \/ (a < 0 /\ b < 0) \/ (a = 0 /\ b = 0)

\* f is d times a positive number, up to the rounding of f's components: the
\* components of f have the signs of those of d (a component of f may round to
\* 0), they are in the same proportions, and f is not 0
PositiveMultiple(f, d, len) ==
    /\ f # ZeroVec
    /\ (f.x = 0 \/ SameSign(f.x, d.x)) /\ (d.x = 0 => f.x = 0)
    /\ (f.y = 0 \/ SameSign(f.y, d.y)) /\ (d.y = 0 => f.y = 0)
    /\ (f.z = 0 \/ SameSign(f.z, d.z)) /\ (d.z = 0 => f.z = 0)
    /\ Abs(MulDiv(f.x, d.y, len) - MulDiv(f.y, d.x, len)) <= 3
    /\ Abs(MulDiv(f.y, d.z, len) - MulDiv(f.z, d.y, len)) <= 3
    /\ Abs(MulDiv(f.z, d.x, len) - MulDiv(f.x, d.z, len)) <= 3

\* the particle of probe started at rest at (0, 0, 0), under one bar magnet of
\* strength 1 at (0, 1, 0)
UnderBarMagnet ==
    /\ probe.kind = "update"
    /\ probe.start.position = ZeroVec
    /\ probe.start.velocity = ZeroVec
    /\ probe.magnets = << NewMagnet(Vec(0, 1000, 0), "bar", 1000) >>

\* the event of the frame at index k of frameLog is of the kind name
IsEvent(k, name) == frameLog[k][1] = name

\* C1: in every reachable state the number of live particles is at most the
\* population ceiling maxParticles = 1000
C1_LiveCountWithinCeiling == Len(particles) <= maxParticles

\* addParticle was called at the ceiling, and the live count is the ceiling
C1_Witness ==
    /\ lastOp.op = "addParticle"
    /\ lastOp.atCeiling
    /\ Len(particles) = maxParticles

\* C2: a call of addParticle while the live count equals the ceiling evicts
\* exactly one particle, the first (lowest index) of those of maximum age; the
\* others stay in their order, the new particle is pushed after them, and the
\* live count is the ceiling again
C2_EvictsOldestAtCeiling ==
    [][ (lastOp'.op = "addParticle" /\ count' # count
            /\ Len(particles) = maxParticles)
        => /\ Len(particles') = maxParticles
           /\ \E k \in 1..Len(particles) :
                 /\ IsOldest(particles, k)
                 /\ SubSeq(particles', 1, maxParticles - 1) = RemoveAt(particles, k)
      ]_vars

\* addParticle was called at the ceiling with several particles of maximum
\* age: particle 1, the first of them, is the one that went (its object was
\* reused for the new particle, at the end), the second now leads
C2_Witness ==
    /\ lastOp.op = "addParticle"
    /\ lastOp.atCeiling
    /\ Len(particles) = maxParticles
    /\ particles[1].id = 2
    /\ particles[1].age > 0
    /\ particles[2].age = particles[1].age
    /\ particles[maxParticles].id = 1
    /\ particles[maxParticles].age = 0

\* C3: at the end of every running step no live particle has position.y < 0
C3_GroundInvariant ==
    RanFrame => \A i \in 1..Len(particles) : particles[i].position.y >= 0

\* C4: after every call of updateParticle the particle's speed is at most
\* maxVelocity = 20, whatever its velocity, the magnets and deltaTime were
C4_SpeedWithinLimit ==
    (probe.kind = "update" /\ probe.steps > 0)
    => /\ Length(probe.withMagnets.velocity) <= maxVelocity
       /\ Length(probe.alone.velocity) <= maxVelocity

\* updateParticle was called once on a particle faster than maxVelocity, which
\* is still in the air
C4_Witness ==
    /\ probe.kind = "update"
    /\ probe.steps = 1
    /\ Length(probe.start.velocity) > maxVelocity
    /\ probe.withMagnets.position.y > 0
    /\ probe.withMagnets.velocity # ZeroVec

\* C5: for every magnet type and strength, at a distance of at least 0.1 the
\* length of the force returned by calculateMagneticForce lies in
\* [MIN_FORCE, MAX_FORCE] = [0.001, 10], up to the rounding of its components
\* (3 units below, the hundredth that the rounding of the distance adds above)
C5_ForceMagnitudeInRange ==
    \A type \in ForceCalls :
        ProbeDistance >= 100
        => /\ Length(probe.force[type]) >= MIN_FORCE - 3
           /\ Length(probe.force[type]) <= MAX_FORCE + MAX_FORCE \div 100

\* calculateMagneticForce was called for every type at a distance of at least
\* 0.1, and the force it returned for one of them is at a limit of the range:
\* within a hundredth of MAX_FORCE, or at MIN_FORCE
C5_Witness ==
    /\ ForceCalls = MagnetTypes
    /\ ProbeDistance >= 100
    /\ \E type \in MagnetTypes :
          \/ Length(probe.force[type]) >= MAX_FORCE - MAX_FORCE \div 100
          \/ Length(probe.force[type]) <= MIN_FORCE

\* C6: whenever the distance between magnet and particle is below 0.1,
\* calculateMagneticForce returns exactly the zero vector, for every magnet
\* type and strength
C6_ZeroForceInsideGuard ==
    \A type \in ForceCalls : ProbeDistance < 100 => probe.force[type] = ZeroVec

\* calculateMagneticForce was called for every type of a strong magnet with
\* the particle nearer than 0.1, but not at the magnet's position
C6_Witness ==
    /\ ForceCalls = MagnetTypes
    /\ ProbeDistance < 100
    /\ ProbeDistance > 0
    /\ probe.magnetStrength = 5000

\* C7: at a distance of at least 0.1 the force returned by
\* calculateMagneticForce is a positive multiple of the vector from the
\* particle to the magnet, whatever the strength; and a particle at rest at
\* (0, 0, 0) under a bar magnet at (0, 1, 0) has, after one updateParticle, a
\* greater upward velocity than after one updateParticle without magnets
C7_ForceIsAttractive ==
    /\ \A type \in ForceCalls :
          ProbeDistance >= 100
          => PositiveMultiple(probe.force[type], TowardMagnet, ProbeDistance)
    /\ (UnderBarMagnet /\ probe.steps = 1)
       => probe.withMagnets.velocity.y > probe.alone.velocity.y

\* calculateMagneticForce was called for every type of a magnet of negative
\* strength, at a distance of at least 0.1
C7_Witness ==
    /\ ForceCalls = MagnetTypes
    /\ ProbeDistance >= 100
    /\ probe.magnetStrength < 0
    /\ probe.force["bar"] # ZeroVec

\* C8: for type horseshoe calculateMagneticForce applies no shape multiplier:
\* the force is the vector toward the magnet with the length
\* strength * MAGNETIC_FORCE_SCALE / distance^2 clamped to
\* [MIN_FORCE, MAX_FORCE], where a bar magnet has that length times
\* |cos(pi * dot)| + 0.3 before the clamp
C8_HorseshoeUnshaped ==
    ("horseshoe" \in ForceCalls /\ ProbeDistance >= 100)
    => probe.force["horseshoe"] =
          VRescale(TowardMagnet,
                   Clamp(InverseSquare(probe.magnetStrength, ProbeDistance),
                         MIN_FORCE, MAX_FORCE),
                   ProbeDistance)

\* calculateMagneticForce was called for the types bar and horseshoe on the
\* same arguments and returned two different forces
C8_Witness ==
    /\ {"bar", "horseshoe"} \subseteq ForceCalls
    /\ ProbeDistance >= 100
    /\ probe.force["horseshoe"] # probe.force["bar"]

\* C8 as stated: the force for type horseshoe equals the force for type bar
C8_HorseshoeEqualsBar ==
    {"bar", "horseshoe"} \subseteq ForceCalls
    => probe.force["horseshoe"] = probe.force["bar"]

\* C9: in a running frame every particle is updated, and culled at once when
\* it is then out of bounds, before the collision pass; after the collision
\* pass only dead particles are removed
C9_CullDuringUpdate ==
    \A k \in 1..Len(frameLog) :
        /\ IsEvent(k, "update")
           => \A j \in 1..(k - 1) : ~IsEvent(j, "collisions") /\ ~IsEvent(j, "cleanup")
        /\ IsEvent(k, "outOfBounds")
           => /\ k > 1
              /\ frameLog[k - 1] = <<"update", frameLog[k][2]>>
              /\ \A j \in 1..(k - 1) : ~IsEvent(j, "collisions")
        /\ IsEvent(k, "collisions")
           => \A j \in (k + 1)..Len(frameLog) : IsEvent(j, "cleanup")

\* a running frame culled a particle that was out of bounds and then ran the
\* collision pass
C9_Witness ==
    /\ RanFrame
    /\ \E k \in 1..Len(frameLog) :
          /\ IsEvent(k, "outOfBounds")
          /\ \E j \in (k + 1)..Len(frameLog) : IsEvent(j, "collisions")

\* C9 as stated: updates, then the collision pass, then the death and
\* out-of-bounds checks and cleanup; no particle is culled for being out of
\* bounds before the collision pass of the frame has run
C9_NoCullBeforeCollisions ==
    \A k \in 1..Len(frameLog) :
        /\ IsEvent(k, "update")
           => \A j \in 1..(k - 1) : ~IsEvent(j, "collisions") /\ ~IsEvent(j, "cleanup")
        /\ (IsEvent(k, "outOfBounds") \/ IsEvent(k, "cleanup"))
           => \A j \in (k + 1)..Len(frameLog) : ~IsEvent(j, "collisions")

\* C10: at the end of every running step no live particle is out of bounds
C10_NoLiveParticleOutOfBounds ==
    RanFrame => \A i \in 1..Len(particles) : ~isOutOfBounds(particles[i])

\* the identities of the particle objects in the slots of a collection
Ids(ps) == [i \in 1..Len(ps) |-> ps[i].id]

\* the first k elements of s (all of s when it has fewer)
Take(s, k) == SubSeq(s, 1, Min(k, Len(s)))

\* s from its last element to its first
Reversed(s) == [i \in 1..Len(s) |-> s[Len(s) + 1 - i]]

\* the events of a frame that removed a particle from the live collection, in
\* the order of the removals
Removals(log) ==
    SelectSeq(log, LAMBDA event : event[1] \in {"outOfBounds", "cleanup"})

\* the identities of the particles a frame removed, in the order of removal
RemovedIds(log) == [k \in 1..Len(Removals(log)) |-> Removals(log)[k][2]]

\* C11: the pool never holds more than PoolCapacity = 50 particles, and of the
\* particles that an operation removes from the live collection, one after the
\* other, exactly those removed while the pool held fewer than 50 are pushed
\* to it, in the order of their removal: clearParticles removes all particles
\* from the last to the first, a running frame those it culled or swept
C11_PoolBounded ==
    /\ [](Len(particlePool) <= PoolCapacity)
    /\ [][ /\ lastOp'.op = "clearParticles"
              => /\ particles' = <<>>
                 /\ particlePool' =
                       particlePool \o Take(Reversed(particles),
                                            PoolCapacity - Len(particlePool))
           /\ (lastOp'.op = "animate" /\ lastOp'.ran)
              => /\ Ids(particlePool') =
                       Ids(particlePool) \o Take(RemovedIds(frameLog'),
                                                 PoolCapacity - Len(particlePool))
                 /\ Len(particles') = Len(particles) - Len(Removals(frameLog'))
         ]_vars

\* a running frame removed a particle while the pool was full: the particle
\* is neither live nor in the pool
C11_Witness ==
    /\ RanFrame
    /\ Len(particlePool) = PoolCapacity
    /\ \E k \in 1..Len(frameLog) :
          /\ IsEvent(k, "outOfBounds")
          /\ \A i \in 1..Len(particlePool) : particlePool[i].id # frameLog[k][2]
          /\ \A i \in 1..Len(particles) : particles[i].id # frameLog[k][2]

\* the particle that the last call of addParticle pushed
Pushed(ps) == ps[Len(ps)]

\* particle is live at position with zero velocity, age 0 and not dead
IsReset(particle, position) ==
    /\ particle.position = position
    /\ particle.velocity = ZeroVec
    /\ particle.age = 0
    /\ ~particle.isDead

\* C12: a call of addParticle below the ceiling with a non-empty pool pops the
\* particle on top of the pool (the pool shrinks by one, nothing is allocated)
\* and pushes it to the live collection with the requested position, zero
\* velocity, age 0 and isDead false; with an empty pool it allocates a new
\* particle, with those values, and the pool stays empty
C12_SpawnDrawsFromPool ==
    [][ (lastOp'.op = "addParticle" /\ ~lastOp'.atCeiling)
        => /\ Len(particles') = Len(particles) + 1
           /\ SubSeq(particles', 1, Len(particles)) = particles
           /\ IsReset(Pushed(particles'), lastOp'.position)
           /\ IF Len(particlePool) > 0
              THEN /\ particlePool' = SubSeq(particlePool, 1, Len(particlePool) - 1)
                   /\ Pushed(particles').id = Pushed(particlePool).id
                   /\ nextId' = nextId
              ELSE /\ particlePool' = <<>>
                   /\ Pushed(particles').id = nextId
                   /\ nextId' = nextId + 1
      ]_vars

\* addParticle reused a pooled particle that had been given a maxAge: it is
\* live again at the requested position, with age 0 and not dead
C12_Witness ==
    /\ lastOp.op = "addParticle"
    /\ Pushed(particles).maxAge \in MaxAges
    /\ IsReset(Pushed(particles), lastOp.position)

\* C13: after every call addParticle(position, options) the particle it
\* pushed has the mass and the radius that options gave, whatever the pool
\* held
C13_OverridesHonoured ==
    lastOp.op = "addParticle"
    => /\ Pushed(particles).mass = lastOp.options.mass
       /\ Pushed(particles).radius = lastOp.options.radius

\* the particle objects that are in a slot of the live collection or of the
\* pool
Owned ==
    { particles[i].id : i \in 1..Len(particles) }
        \cup { particlePool[i].id : i \in 1..Len(particlePool) }

\* C14: in every reachable state no particle object is in two slots, not
\* twice in the live collection, not twice in the pool, not in both: there
\* are as many objects in the slots as there are slots
C14_ExclusiveOwnership ==
    Cardinality(Owned) = Len(particles) + Len(particlePool)

\* addParticle took a particle from a pool that still holds others, next to
\* live particles: the particle is live and no longer in the pool
C14_Witness ==
    /\ lastOp.op = "addParticle"
    /\ Len(particles) > 1
    /\ Len(particlePool) > 0
    /\ Pushed(particles).id < Pushed(particlePool).id

\* identity, mass and radius of every particle object in a slot
Traits ==
    { <<particles[i].id, particles[i].mass, particles[i].radius>> :
         i \in 1..Len(particles) }
        \cup { <<particlePool[i].id, particlePool[i].mass, particlePool[i].radius>> :
                  i \in 1..Len(particlePool) }

\* the step was a call of addParticle and index i is where it pushed
IsPushedBy(op, ps, i) == op.op = "addParticle" /\ i = Len(ps)

\* what a step adds to the age of a particle that stays live: deltaTime in a
\* running frame, nothing otherwise (ages count sixtieths of a second)
AgeGain(op) == IF op.op = "animate" /\ op.ran THEN 60 \div op.dtDen ELSE 0

\* C15: a particle that is live before and after a step, and was not pushed by
\* it, has its age grown by exactly deltaTime when the step is a running frame
\* and unchanged otherwise; only the particle that addParticle pushes (new or
\* recycled) gets age 0; and every particle object keeps its mass and radius
\* for as long as it is live or pooled
C15_AgeGrowsTraitsFixed ==
    [][ /\ \A i \in 1..Len(particles') : \A j \in 1..Len(particles) :
              (particles'[i].id = particles[j].id
                  /\ ~IsPushedBy(lastOp', particles', i))
              => particles'[i].age = particles[j].age + AgeGain(lastOp')
        /\ \A i \in 1..Len(particles') :
              IsPushedBy(lastOp', particles', i) => particles'[i].age = 0
        /\ \A t \in Traits' : t[1] \in Owned => t \in Traits
      ]_vars

\* a running frame ended with two live particles of different positive ages,
\* the younger as old as the frame was long
C15_Witness ==
    /\ RanFrame
    /\ \E i \in 1..Len(particles) : \E j \in 1..Len(particles) :
          /\ particles[j].age = AgeGain(lastOp)
          /\ particles[i].age > particles[j].age

\* particle, live and not dead, outlives its maxAge in the step op
Expires(particle, op) ==
    /\ ~particle.isDead
    /\ particle.age + AgeGain(op) > particle.maxAge

\* pooled is what a frame of the step op leaves of particle when it kills it
\* instead of integrating it: dead, older by deltaTime, and where it was with
\* the velocity it had
KilledInPlace(pooled, particle, op) ==
    /\ pooled.isDead
    /\ pooled.age = particle.age + AgeGain(op)
    /\ pooled.position = particle.position
    /\ pooled.velocity = particle.velocity

\* C16: no live particle is dead in any reachable state; and a live particle
\* whose age exceeds its maxAge in a running frame is no longer live when the
\* frame ends, and where the pool took it, it is marked dead and, when it was
\* the only live particle (no collision moved it), it is where it was with the
\* velocity it had: it was not integrated
C16_ExpiredParticlesLeave ==
    /\ [](\A i \in 1..Len(particles) : ~particles[i].isDead)
    /\ [][ (lastOp'.op = "animate" /\ lastOp'.ran)
           => \A j \in 1..Len(particles) :
                 Expires(particles[j], lastOp')
                 => /\ \A i \in 1..Len(particles') :
                          particles'[i].id # particles[j].id
                    /\ \A k \in 1..Len(particlePool') :
                          particlePool'[k].id = particles[j].id
                          => /\ particlePool'[k].isDead
                             /\ Len(particles) = 1
                                => KilledInPlace(particlePool'[k], particles[j],
                                                 lastOp')
         ]_vars

\* a running frame killed the only live particle, spawned in the air and
\* given a maxAge: it is on the pool, dead, at its place in the air and at rest
C16_Witness ==
    /\ RanFrame
    /\ particles = <<>>
    /\ frameLog # <<>>
    /\ IsEvent(Len(frameLog), "cleanup")
    /\ particlePool # <<>>
    /\ Pushed(particlePool).isDead
    /\ Pushed(particlePool).age > Pushed(particlePool).maxAge
    /\ Pushed(particlePool).position = Vec(14980, 20, 0)
    /\ Pushed(particlePool).velocity = ZeroVec

\* the number of particles a frame culled for being out of bounds
Culls(log) == Len(SelectSeq(log, LAMBDA event : event[1] = "outOfBounds"))

\* the frame ran the collision pass
RanCollisions(log) == \E k \in 1..Len(log) : log[k][1] = "collisions"

\* two live particles overlap: they are nearer than the sum of their radii,
\* and not in the same place
Overlapping(ps) ==
    \E i \in 1..Len(ps) : \E j \in (i + 1)..Len(ps) :
        /\ ps[i].position # ps[j].position
        /\ Distance(ps[i].position, ps[j].position) < ps[i].radius + ps[j].radius

\* C17: a running frame runs the collision pass if and only if fewer than
\* CollisionLimit = 100 particles are live once updateParticles has updated
\* and culled them; with 100 or more the frame leaves the particles as
\* updateParticles and the cleanup alone leave them
C17_CollisionGate ==
    [][ (lastOp'.op = "animate" /\ lastOp'.ran)
        => /\ RanCollisions(frameLog')
                <=> Len(particles) - Culls(frameLog') < CollisionLimit
           /\ Len(particles) - Culls(frameLog') >= CollisionLimit
                => particles' =
                     cleanupDeadParticles(
                         updateParticles(Collections, magnets,
                                         lastOp'.dtDen)).particles
      ]_vars

\* a running frame ended with 100 live particles and without a collision
\* pass: two particles that overlap were left overlapping
C17_Witness ==
    /\ RanFrame
    /\ Len(particles) >= CollisionLimit
    /\ ~RanCollisions(frameLog)
    /\ Overlapping(particles)

\* every particle that is live before and after the step has aged by gain
AgedBy(gain) ==
    \A i \in 1..Len(particles') : \A j \in 1..Len(particles) :
        particles'[i].id = particles[j].id
        => particles'[i].age = particles[j].age + gain

C19_StrengthInRange ==
    \A i \in 1..Len(magnets) :
        magnets[i].strength >= 100 /\ magnets[i].strength <= 2000

\* C20: no particle with a negative mass or radius is ever live, and no magnet
\* of a type other than bar, ring or horseshoe is ever in the simulation: the
\* construction of such a particle or magnet fails and adds nothing
C20_InvalidConfigurationRejected ==
    /\ \A i \in 1..Len(particles) :
          particles[i].mass >= 0 /\ particles[i].radius >= 0
    /\ \A i \in 1..Len(magnets) : magnets[i].type \in MagnetTypes

\* C21: with no magnet and deltaTime = 1/60, a call of updateParticle never
\* raises the speed of the particle: the velocity magnitude falls from step
\* to step (until the particle is at rest)
C21_SpeedFallsWithoutMagnets ==
    [][(probe.kind = "update" /\ probe.dtDen = 60
          /\ probe'.steps = probe.steps + 1)
       => Length(probe'.alone.velocity) <= Length(probe.alone.velocity)]_vars

\* the pair is one that handleParticleCollision resolves: its centres are
\* apart, by less than the sum of the radii
Overlaps(pair) ==
    /\ Distance(pair[1].position, pair[2].position) > 0
    /\ Distance(pair[1].position, pair[2].position) < pair[1].radius + pair[2].radius

\* the rate at which the two centres close in on each other, times their
\* distance: (v1 - v2) . (p2 - p1); positive when the distance is shrinking,
\* negative when it is growing
ClosingRate(pair) ==
    (pair[1].velocity.x - pair[2].velocity.x) * (pair[2].position.x - pair[1].position.x)
  + (pair[1].velocity.y - pair[2].velocity.y) * (pair[2].position.y - pair[1].position.y)
  + (pair[1].velocity.z - pair[2].velocity.z) * (pair[2].position.z - pair[1].position.z)

\* the velocities of the two particles
Velocities(pair) == << pair[1].velocity, pair[2].velocity >>

\* C22: of an overlapping pair handed to handleParticleCollision, one whose
\* particles approach each other has its velocities changed by the impulse,
\* and one whose particles move apart keeps its velocities
C22_SeparatingPairsAreSkipped ==
    (probe.kind = "collision" /\ probe.done /\ Overlaps(probe.before)) =>
        /\ ClosingRate(probe.before) > 0 =>
              Velocities(probe.after) # Velocities(probe.before)
        /\ ClosingRate(probe.before) < 0 =>
              Velocities(probe.after) = Velocities(probe.before)

\* C23: handleGroundCollision on a particle with position.y <= 0 puts
\* position.y to 0, leaves velocity.y >= 0 (a negative velocity.y becomes
\* -velocity.y * 0.3, another one is kept) and multiplies velocity.x and
\* velocity.z by 0.8; on a particle with position.y > 0 it changes nothing
C23_GroundCollisionResponse ==
    (probe.kind = "ground" /\ probe.done) =>
        IF probe.before.position.y <= 0
        THEN /\ probe.after[1].position =
                   [probe.before.position EXCEPT !.y = 0]
             /\ probe.after[1].velocity.y >= 0
             /\ probe.before.velocity.y < 0 =>
                   10 * probe.after[1].velocity.y = -3 * probe.before.velocity.y
             /\ probe.before.velocity.y >= 0 =>
                   probe.after[1].velocity.y = probe.before.velocity.y
             /\ 10 * probe.after[1].velocity.x = 8 * probe.before.velocity.x
             /\ 10 * probe.after[1].velocity.z = 8 * probe.before.velocity.z
        ELSE probe.after[1] = probe.before

\* a particle exactly on the floor, falling and moving sideways, has been
\* through handleGroundCollision
C23_Witness ==
    /\ probe.kind = "ground"
    /\ probe.done
    /\ probe.before.position.y = 0
    /\ probe.before.velocity.y < 0
    /\ probe.before.velocity.x # 0
    /\ probe.before.velocity.z # 0

\* the positions of the two particles
Positions(pair) == << pair[1].position, pair[2].position >>

\* C24: handleParticleCollision on a pair with 0 < distance < radius1 +
\* radius2 moves each particle by half the overlap, away from the other, so
\* that the centres are radius1 + radius2 apart afterwards and their midpoint
\* is where it was; any other pair keeps its positions and velocities
C24_PairwiseSeparation ==
    (probe.kind = "collision" /\ probe.done) =>
        IF Overlaps(probe.before)
        THEN /\ Distance(probe.after[1].position, probe.after[2].position) =
                   probe.before[1].radius + probe.before[2].radius
             /\ VAdd(probe.after[1].position, probe.after[2].position) =
                   VAdd(probe.before[1].position, probe.before[2].position)
             /\ 2 * Distance(probe.before[1].position, probe.after[1].position) =
                   probe.before[1].radius + probe.before[2].radius
                     - Distance(probe.before[1].position, probe.before[2].position)
             /\ Distance(probe.before[2].position, probe.after[2].position) =
                   Distance(probe.before[1].position, probe.after[1].position)
        ELSE /\ Positions(probe.after) = Positions(probe.before)
             /\ Velocities(probe.after) = Velocities(probe.before)

\* an obliquely overlapping pair of unequal radii has been through
\* handleParticleCollision
C24_Witness ==
    /\ probe.kind = "collision"
    /\ probe.done
    /\ Overlaps(probe.before)
    /\ probe.before[1].radius # probe.before[2].radius
    /\ probe.before[2].position.x # probe.before[1].position.x
    /\ probe.before[2].position.y # probe.before[1].position.y
    /\ Positions(probe.after) # Positions(probe.before)

\* the relative velocity of the pair `moving` along the collision normal of
\* the pair `placed`: (v1 - v2) . normalize(p2 - p1)
AlongNormal(moving, placed) ==
    Dot(VSub(moving[1].velocity, moving[2].velocity),
        Normalize(VSub(placed[2].position, placed[1].position)))

\* C25: for every overlapping pair that handleParticleCollision resolves, the
\* magnitude of the relative velocity along the collision normal is not
\* greater after the call than before it
C25_NormalSpeedNotIncreased ==
    (probe.kind = "collision" /\ probe.done /\ Overlaps(probe.before)) =>
        Abs(AlongNormal(probe.after, probe.before))
            <= Abs(AlongNormal(probe.before, probe.before))

\* two particles of equal mass, moving in opposite directions along the line
\* of their centres, have been through the impulse exchange
C25_Witness ==
    /\ probe.kind = "collision"
    /\ probe.done
    /\ Overlaps(probe.before)
    /\ probe.before[1].mass = probe.before[2].mass
    /\ probe.before[1].velocity = VTimes(probe.before[2].velocity, -1)
    /\ AlongNormal(probe.before, probe.before) # 0
    /\ Velocities(probe.after) # Velocities(probe.before)
    /\ Abs(AlongNormal(probe.after, probe.before))
          = Abs(AlongNormal(probe.before, probe.before))

\* C26: at the end of every running frame (integration, then the collision
\* pass) the speed of every live particle is at most maxVelocity
C26_SpeedWithinLimitAfterFrame ==
    (lastOp.op = "animate" /\ lastOp.ran) =>
        \A i \in 1..Len(particles) : Length(particles[i].velocity) <= maxVelocity

\* the number of calls of IronParticle.update that a frame made on the
\* particle of identity id
UpdateCalls(log, id) ==
    Cardinality({ k \in 1..Len(log) : log[k] = <<"update", id>> })

\* C27: a running frame calls IronParticle.update exactly once on every
\* particle that was live when the frame began, whatever the frame removes
\* from the live collection on its way
C27_EveryParticleUpdatedOnce ==
    [][(lastOp'.op = "animate" /\ lastOp'.ran) =>
          \A i \in 1..Len(particles) :
              UpdateCalls(frameLog', particles[i].id) = 1]_vars

\* a frame has culled a particle and, later in the same pass, updated
\* another one
C27_Witness ==
    /\ RanFrame
    /\ \E k \in 1..Len(frameLog) : \E l \in (k + 1)..Len(frameLog) :
          /\ IsEvent(k, "outOfBounds")
          /\ IsEvent(l, "update")

\* C29: after reset() no particle is live and each magnet of the initial scene
\* has the position and the strength that setupInitialScene gave it
C29_ResetRestoresInitialScene ==
    lastOp.op = "reset" =>
        /\ Len(particles) = 0
        /\ \A i \in 1..Len(InitialMagnets) :
              /\ magnets[i].position = InitialMagnets[i].position
              /\ magnets[i].strength = InitialMagnets[i].strength

\* C28: at most one magnet has isDragging = true, and a magnet that has it is
\* the application's draggedMagnet
C28_OneMagnetDragged ==
    /\ Cardinality({ i \in 1..Len(magnets) : magnets[i].isDragging }) <= 1
    /\ \A i \in 1..Len(magnets) : magnets[i].isDragging => draggedMagnet = i

\* C30: between the handlers at most one frame callback is pending: exactly
\* one, the one animationFrameId names, while isRunning is true, and none
\* while it is false, as after stop()
C30_OneFramePending ==
    /\ Cardinality(frameRequests) <= 1
    /\ isRunning => (animationFrameId # 0 /\ frameRequests = {animationFrameId})
    /\ ~isRunning => frameRequests = {}

\* the loop was stopped and start() has started it again: one callback is
\* pending
C30_Witness ==
    /\ lastOp.op = "start"
    /\ lastOp.ran
    /\ isRunning
    /\ Cardinality(frameRequests) = 1

====
